---- MODULE Spec2Model ----
(***************************************************************************)
(* The delta evaluator of narui: the versioned state store (PatchedTree),  *)
(* the fragment arena (FragmentStore), and the re-evaluation driver        *)
(* (EvaluatorInner::update, evaluate_unconditional, re_eval_fragment,      *)
(* remove_tree), with the layouter as the collaborator that receives       *)
(* add_node / set_children / set_node / remove_node.                       *)
(***************************************************************************)
EXTENDS Integers, Sequences, FiniteSets, TLC

\* ------------------------------------------------------------------ bounds
\* state cells hold values 0..MaxVal
MaxVal == 1

\* the writer threads shout at most MaxWrites times
MaxWrites == 2

\* a caller of the state store alone makes at most MaxCalls calls
MaxCalls == 5

Vals == 0..MaxVal

\* ------------------------------------------------ the widget catalogues
\* The fragments an author can declare, by key. Key 1 is the root.
Keys == {1, 2, 3, 4}

Root == 1

\* the trees an author declares: a chain (1 lists 2, 2 lists 3), a fan
\* (1 lists 2 and 3), and a counter (the root alone)
Catalogues == {"chain", "fan", "counter"}

\* two more trees: a bush (1 lists 2 and 3, 2 lists 4), and twins, whose
\* root lists the same key twice
Thickets == {"bush", "twins"}

\* the children a widget may list, in declaration order
Kids(w, k) ==
    CASE w = "chain" /\ k = 1 -> <<2>>
      [] w = "chain" /\ k = 2 -> <<3>>
      [] w = "fan" /\ k = 1 -> <<2, 3>>
      [] w = "bush" /\ k = 1 -> <<2, 3>>
      [] w = "bush" /\ k = 2 -> <<4>>
      [] w = "twins" /\ k = 1 -> <<2, 2>>
      [] OTHER -> <<>>

\* widgets with a listenable of their own (context.listenable)
Stateful(w) ==
    CASE w = "chain" -> {1, 3} [] w = "fan" -> {1, 2, 3} [] w = "bush" -> {1, 3}
      [] OTHER -> {1}

\* the listenables a widget may listen to: its own and the root's; in the
\* bush, 1 and 2 the root's, 3 its own, 4 none
Audible(w, k) ==
    CASE w = "bush" /\ k = 3 -> {3}
      [] w = "bush" /\ k = 4 -> {}
      [] OTHER -> ({k} \cap Stateful(w)) \cup {Root}

\* widgets that shout their own listenable while they evaluate (frame_counter)
Shouters(w) ==
    CASE w = "counter" -> {1} [] w \in Thickets -> {} [] OTHER -> {3}

\* the values the callbacks of the widgets shout: a counter's buttons shout
\* any count, the others shout that they were clicked
Shouts(w) == IF w = "counter" THEN Vals ELSE {MaxVal}

\* the value a widget shouts while it evaluates: the next count, which stops
\* at MaxVal
NextCount(v) == IF v < MaxVal THEN v + 1 ELSE MaxVal

\* local hook slots of a widget (one listenable per widget)
Slots == {0}

FragIdx == 1..Cardinality(Keys)

\* the hook slots initialize is asked for: the local slot and one more
HookSlots == Slots \cup {Cardinality(Slots)}

CellIdx == 1..(Cardinality(Keys) * Cardinality(Slots) + 1)

Handles == 1..Cardinality(Keys)

SeqToSet(s) == {s[i] : i \in DOMAIN s}

RECURSIVE SetToSeq(_)
\* the elements of a set of integers, ascending
SetToSeq(S) ==
    IF S = {} THEN <<>>
    ELSE LET m == CHOOSE x \in S : \A y \in S : x <= y
         IN <<m>> \o SetToSeq(S \ {m})

\* a sequence without the elements outside S
Filter(s, S) == SelectSeq(s, LAMBDA x : x \in S)

Reverse(s) == [i \in 1..Len(s) |-> s[Len(s) + 1 - i]]

\* the element of a set with one element
The(S) == CHOOSE x \in S : TRUE

\* -------------------------------------------------------------- FreeList
\* freelist::FreeList<T>: a growable store with a list of freed slots; add
\* reuses the most recently freed slot, remove frees a slot and leaves its
\* bytes behind.
NewFreeList(Idxs, empty) ==
    [item |-> [i \in Idxs |-> empty],
     live |-> [i \in Idxs |-> FALSE],
     free |-> <<>>,
     len  |-> 0]

FreeListNext(fl) == IF fl.free # <<>> THEN Head(fl.free) ELSE fl.len + 1

FreeListAdd(fl, it) ==
    LET idx == FreeListNext(fl)
    IN [item |-> [fl.item EXCEPT ![idx] = it],
        live |-> [fl.live EXCEPT ![idx] = TRUE],
        free |-> IF fl.free # <<>> THEN Tail(fl.free) ELSE fl.free,
        len  |-> IF fl.free # <<>> THEN fl.len ELSE fl.len + 1]

FreeListRemove(fl, idx) ==
    [fl EXCEPT !.live[idx] = FALSE, !.free = <<idx>> \o @]

FreeListRemoved(fl, idx) == ~fl.live[idx]

\* ----------------------------------------------------------- PatchedTree
\* a state cell: (Set64<usize>, TreeItem)
Cell(deps, value) == [deps |-> deps, value |-> value]

HookKey(k, slot) == <<k, slot>>

HookRef(key, idx) == [key |-> key, idx |-> idx]

NewPatchedTree ==
    [data       |-> NewFreeList(CellIdx, Cell({}, 0)),
     key_to_idx |-> << >>,
     patch      |-> << >>]

HasPatch(t, idx) == idx \in DOMAIN t.patch

HasCell(t, key) ==
    /\ key[1] \in DOMAIN t.key_to_idx
    /\ key[2] \in DOMAIN t.key_to_idx[key[1]]

\* the HookRef a HookKey resolves to (the key is registered)
RefOf(t, key) == HookRef(key, t.key_to_idx[key[1]][key[2]])

\* every registered HookRef
LiveRefs(t) ==
    UNION {{HookRef(HookKey(k, s), t.key_to_idx[k][s]) : s \in DOMAIN t.key_to_idx[k]} :
              k \in DOMAIN t.key_to_idx}

get_unpatched(t, ref) == t.data.item[ref.idx].value

\* a get_patched that reads the committed cell
get_patched_committed(t, ref) == t.data.item[ref.idx].value

get_patched(t, ref) ==
    IF HasPatch(t, ref.idx) THEN t.patch[ref.idx].value
    ELSE get_unpatched(t, ref)

\* an initialize that stores the value it is given in the cell it finds
initialize_overwrites(t, key, value) ==
    IF HasCell(t, key)
    THEN [t EXCEPT !.data.item[t.key_to_idx[key[1]][key[2]]].value = value]
    ELSE LET idx  == FreeListNext(t.data)
             old  == IF key[1] \in DOMAIN t.key_to_idx
                     THEN t.key_to_idx[key[1]] ELSE << >>
             slots == [s \in DOMAIN old \cup {key[2]} |->
                          IF s = key[2] THEN idx ELSE old[s]]
         IN [t EXCEPT
               !.data = FreeListAdd(t.data, Cell({}, value)),
               !.key_to_idx = [k \in DOMAIN t.key_to_idx \cup {key[1]} |->
                                  IF k = key[1] THEN slots ELSE t.key_to_idx[k]]]

\* initialize returns the HookRef; the tree after the call is initialize_tree
initialize_tree(t, key, value) ==
    IF HasCell(t, key) THEN t
    ELSE LET idx  == FreeListNext(t.data)
             old  == IF key[1] \in DOMAIN t.key_to_idx
                     THEN t.key_to_idx[key[1]] ELSE << >>
             slots == [s \in DOMAIN old \cup {key[2]} |->
                          IF s = key[2] THEN idx ELSE old[s]]
         IN [t EXCEPT
               !.data = FreeListAdd(t.data, Cell({}, value)),
               !.key_to_idx = [k \in DOMAIN t.key_to_idx \cup {key[1]} |->
                                  IF k = key[1] THEN slots ELSE t.key_to_idx[k]]]

initialize(t, key, value) == RefOf(initialize_tree(t, key, value), key)

\* a set that writes through to the committed cell
set_through(t, ref, value) ==
    [t EXCEPT !.data.item[ref.idx].value = value,
              !.patch = [i \in DOMAIN t.patch \cup {ref.idx} |->
                            IF i = ref.idx
                            THEN [key |-> ref.key, value |-> value]
                            ELSE t.patch[i]]]

set(t, ref, value) ==
    [t EXCEPT !.patch = [i \in DOMAIN t.patch \cup {ref.idx} |->
                            IF i = ref.idx
                            THEN [key |-> ref.key, value |-> value]
                            ELSE t.patch[i]]]

set_unconditional(t, idx, value) ==
    [t EXCEPT !.data.item[idx].value = value]

RECURSIVE RemoveCells(_, _)
RemoveCells(fl, idxs) ==
    IF idxs = <<>> THEN fl
    ELSE RemoveCells(FreeListRemove(fl, Head(idxs)), Tail(idxs))

remove_widget(t, k) ==
    IF k \in DOMAIN t.key_to_idx
    THEN LET m == t.key_to_idx[k]
         IN [t EXCEPT
               !.key_to_idx = [j \in DOMAIN t.key_to_idx \ {k} |-> t.key_to_idx[j]],
               !.data = RemoveCells(t.data, SetToSeq({m[s] : s \in DOMAIN m}))]
    ELSE t

\* a set_dependent that records nothing
set_dependent_forgets(t, ref, frag) == t

set_dependent(t, ref, frag) ==
    [t EXCEPT !.data.item[ref.idx].deps = @ \cup {frag}]

\* a dependents that leaves the set as it is
dependents_tree_keeps(t, ref) == t

\* a dependents that yields the dependents of every cell
dependents_of_all(t, ref) == UNION {t.data.item[i].deps : i \in CellIdx}

\* dependents yields the taken set; the tree after the call is dependents_tree
dependents(t, ref) == t.data.item[ref.idx].deps

dependents_tree(t, ref) == [t EXCEPT !.data.item[ref.idx].deps = {}]

\* --------------------------------------------------------- FragmentStore
NoFragment == [tag |-> "None"]

UnevaluatedFragment(k) == [tag |-> "Unevaluated", key |-> k, gen |-> k]

EvaluatedFragment(k, gen, layout_idx, store_idx, children) ==
    [tag |-> "Evaluated", key |-> k, gen |-> gen, layout_idx |-> layout_idx,
     store_idx |-> store_idx, children |-> children]

FragmentInfo(fragment, args) == [fragment |-> fragment, args |-> args]

NewFragmentStore ==
    [data       |-> NewFreeList(FragIdx, FragmentInfo(NoFragment, FALSE)),
     dirty_args |-> <<>>]

\* add_empty_fragment returns the index; the store after it is add_empty_fragment_store
add_empty_fragment(fs) == FreeListNext(fs.data)

add_empty_fragment_store(fs) ==
    [fs EXCEPT !.data = FreeListAdd(fs.data, FragmentInfo(NoFragment, FALSE))]

removed(fs, idx) ==
    FreeListRemoved(fs.data, idx) \/ fs.data.item[idx].fragment = NoFragment

add_fragment(fs, idx, init) ==
    IF fs.data.item[idx].fragment = NoFragment
    THEN [fs EXCEPT !.data.item[idx].fragment = init]
    ELSE fs

get(fs, idx) == fs.data.item[idx].fragment

remove(fs, idx) ==
    [fs EXCEPT !.data = FreeListRemove(
                  [fs.data EXCEPT !.item[idx].fragment = NoFragment], idx)]

\* set_args that stores the arguments and does not queue the fragment
set_args_unqueued(fs, idx) == [fs EXCEPT !.data.item[idx].args = TRUE]

set_args(fs, idx) ==
    [fs EXCEPT !.dirty_args = Append(@, idx), !.data.item[idx].args = TRUE]

\* a dirty_args that yields nothing
dirty_args_dropped(fs) == <<>>

\* a drain that leaves the queue as it is
dirty_args_store_keeps(fs) == fs

\* dirty_args yields the queue, last pushed first; the store after the drain
\* is dirty_args_store
dirty_args(fs) == Reverse(fs.dirty_args)

dirty_args_store(fs) == [fs EXCEPT !.dirty_args = <<>>]

\* -------------------------------------------------------------- Layouter
\* the layout collaborator: the nodes it holds and each node's children
NewLayouter ==
    [nodes |-> {}, children |-> [h \in Handles |-> <<>>]]

add_node(l) == CHOOSE h \in Handles \ l.nodes : \A o \in Handles \ l.nodes : h <= o

add_node_layout(l) ==
    [l EXCEPT !.nodes = @ \cup {add_node(l)}, !.children[add_node(l)] = <<>>]

set_children(l, h, hs) == [l EXCEPT !.children[h] = hs]

set_node(l, h) == l

remove_node(l, h) == [l EXCEPT !.nodes = @ \ {h}, !.children[h] = <<>>]

\* --------------------------------------------------------- WidgetContext
\* hook_counter and the external counts are u16
HookBits == 16

U16 == 2 ^ HookBits

\* 0b1000_0000_0000_0000, the bit that tags an external hook slot
ExternalTag == 2 ^ (HookBits - 1)

\* x | 0b1000_0000_0000_0000
OrExternalTag(x) == IF (x \div ExternalTag) % 2 = 1 THEN x ELSE x + ExternalTag

\* a context whose local counter starts at one
for_key_from_one(key) == [key |-> key, hook_counter |-> 1]

\* WidgetLocalContext::for_key
for_key(key) == [key |-> key, hook_counter |-> 0]

\* ExternalHookCount::default: no key has a count, and next() starts a key
\* at 0 (entry(key).or_insert(0))
NewExternalHookCount == [k \in Keys |-> 0]

\* ExternalHookCount::next returns the count of the key; the counts after
\* the call are ExternalHookCount_next_counts
ExternalHookCount_next(counts, key) == counts[key]

ExternalHookCount_next_counts(counts, key) ==
    [counts EXCEPT ![key] = (@ + 1) % U16]

WidgetContext(widget_local, local_hook, counts) ==
    [widget_local |-> widget_local, local_hook |-> local_hook,
     external_hook_count |-> counts]

\* WidgetContext::root
root == WidgetContext(for_key(Root), TRUE, NewExternalHookCount)

\* WidgetContext::for_fragment, with_key_widget: a new context for the
\* fragment with the key, over the same ExternalHookCount
for_fragment(ctx, key) ==
    WidgetContext(for_key(key), TRUE, ctx.external_hook_count)

\* key_for_hook returns the HookKey; the context after the call is
\* key_for_hook_context
key_for_hook(ctx) ==
    IF ctx.local_hook
    THEN HookKey(ctx.widget_local.key, ctx.widget_local.hook_counter)
    ELSE HookKey(ctx.widget_local.key,
                 OrExternalTag(ExternalHookCount_next(ctx.external_hook_count,
                                                      ctx.widget_local.key)))

key_for_hook_context(ctx) ==
    IF ctx.local_hook
    THEN [ctx EXCEPT !.widget_local.hook_counter = (@ + 1) % U16]
    ELSE [ctx EXCEPT !.external_hook_count =
                        ExternalHookCount_next_counts(@, ctx.widget_local.key)]

\* the += 1 of key_for_hook overflows its u16: a build with overflow checks
\* panics there, a build without them wraps
Overflows(ctx) ==
    IF ctx.local_hook
    THEN ctx.widget_local.hook_counter = U16 - 1
    ELSE ctx.external_hook_count[ctx.widget_local.key] = U16 - 1

\* ------------------------------------------------------------- ghosts
\* What happened, kept beside the program's state to state the claims. Every
\* observer keeps, of the running update cycle, the generator runs and
\* set_args calls per arena index, the indices torn down and whether the
\* layouter was called, and, across cycles, the value last written to each
\* cell with a write outstanding and whether the last step was a write that
\* replaced a buffered value.
\* The observer of registrations ("reg") also keeps what each fragment
\* listened to in its last evaluation and the fragments a committed write
\* owes a run, and those it owed a run that have run.
\* The observer of cycles ("cycle") also keeps the (key, cell) pairs the
\* commit yielded, the fragments dependents() yielded, the arena and the
\* patch keys as the cycle met them, whether a writer shouted during the
\* commit, whether update has returned with no write since, and whether that
\* was so when the cycle started.
\* The observer of registrations also keeps, for each cell, the fragments
\* registered on it since its dependents were last taken, and the cells whose
\* dependents the commit of the running update took.
\* The observer of evaluations ("eval") also keeps the fragments dependents()
\* yielded, the calls made to the layouter by the step just taken and
\* whether any call named a handle the layouter does not hold, the number of
\* drains of the dirty-args queue, whether a drained fragment was processed
\* and how many drained entries of each arena index were, the value each
\* cell last showed a generator of the running update (or the update wrote
\* to it), and whether a generator read another value than that; and, of the
\* requests to re-evaluate, those made by the fragment that occupies the
\* arena index now: per cell the occupants registered on it since its
\* dependents were last taken (who), the occupants among the dependents the
\* commit took (why), and per arena index the set_args entries queued for
\* its occupant and not yet processed (owed).
\* The observer of hook keys ("hook") also keeps the last call with its
\* result, the number of local key_for_hook calls the context at hand has
\* answered, and per widget key the local and the external slots handed out
\* (of those handed out before the observation starts, the first and the
\* last).
\* The observer of the state store's callers ("api") also keeps the last
\* call with its arguments and result, the value each registered cell holds
\* as committed (its initial value, or the value the last commit applied),
\* and the cells whose committed value a commit applied.
Observers == {"reg", "cycle", "api", "eval", "hook"}

NoCall == [name |-> "none"]

NoSnapshot == << >>

NewGhost(obs) ==
    [obs     |-> obs,
     runs    |-> [i \in FragIdx |-> 0],
     nargs   |-> [i \in FragIdx |-> 0],
     gone    |-> {},
     lcalls  |-> FALSE,
     pend    |-> << >>,
     over    |-> FALSE,
     lastReg |-> [i \in FragIdx |-> {}],
     due     |-> {},
     paid    |-> {},
     touched |-> {},
     taken   |-> {},
     store0  |-> NoSnapshot,
     keys0   |-> {},
     quiet0  |-> FALSE,
     conc    |-> FALSE,
     quiet   |-> FALSE,
     op      |-> NoCall,
     comm    |-> << >>,
     applied |-> {},
     regs    |-> [i \in CellIdx |-> {}],
     cut     |-> {},
     log     |-> <<>>,
     misuse  |-> FALSE,
     drains  |-> 0,
     fed     |-> FALSE,
     served  |-> [i \in FragIdx |-> 0],
     who     |-> [i \in CellIdx |-> {}],
     why     |-> {},
     owed    |-> [i \in FragIdx |-> 0],
     nloc    |-> 0,
     locals  |-> [k \in Keys |-> {}],
     externs |-> [k \in Keys |-> {}],
     seen    |-> << >>,
     torn    |-> FALSE]

\* the ghost at the start of an update cycle
CycleGhost(g) ==
    [g EXCEPT !.runs = [i \in FragIdx |-> 0], !.nargs = [i \in FragIdx |-> 0],
              !.gone = {}, !.lcalls = FALSE, !.over = FALSE, !.due = {},
              !.paid = {}, !.touched = {}, !.taken = {}, !.store0 = NoSnapshot,
              !.keys0 = {}, !.quiet0 = FALSE, !.conc = FALSE, !.drains = 0, !.cut = {},
              !.fed = FALSE, !.served = [i \in FragIdx |-> 0], !.seen = << >>,
              !.why = {}, !.owed = [i \in FragIdx |-> 0], !.torn = FALSE]

\* the ghost after value v is written to cell idx
WriteGhost(g, idx, v) ==
    [g EXCEPT
       !.pend  = [i \in DOMAIN g.pend \cup {idx} |-> IF i = idx THEN v ELSE g.pend[i]],
       !.quiet = FALSE]

\* the ghost after fragment f ran listening to the listenables of widgets ls
RunGhost(g, f, ls) ==
    [g EXCEPT !.runs[f]    = @ + 1,
              !.lastReg[f] = IF g.obs = "reg" THEN ls ELSE @,
              !.due        = @ \ {f},
              !.paid       = @ \cup ({f} \cap g.due)]

\* the ghost after fragment f is torn down
GoneGhost(g, f) ==
    [g EXCEPT !.gone = @ \cup {f}, !.lcalls = TRUE, !.lastReg[f] = {},
              !.due = @ \ {f},
              !.who = IF g.obs = "eval" THEN [i \in CellIdx |-> @[i] \ {f}] ELSE @,
              !.why = @ \ {f},
              !.owed[f] = 0]

\* the ghost after a generator run as fragment f read the cells refs of
\* tree t
ReadGhost(g, t, f, refs) ==
    CASE g.obs = "eval" ->
           [g EXCEPT
              !.torn = @ \/ \E ref \in refs :
                                /\ ref.idx \in DOMAIN g.seen
                                /\ g.seen[ref.idx] # get_patched(t, ref),
              !.seen = [i \in DOMAIN g.seen \cup {ref.idx : ref \in refs} |->
                           IF \E ref \in refs : ref.idx = i
                           THEN get_patched(t, CHOOSE ref \in refs : ref.idx = i)
                           ELSE g.seen[i]],
              !.who = [i \in CellIdx |->
                          IF \E ref \in refs : ref.idx = i THEN @[i] \cup {f}
                          ELSE @[i]]]
      [] g.obs = "reg" ->
           [g EXCEPT
              !.regs = [i \in CellIdx |->
                           IF \E ref \in refs : ref.idx = i THEN @[i] \cup {f}
                           ELSE @[i]]]
      [] OTHER -> g

\* the ghost after the running update wrote v to cell idx
OwnWriteGhost(g, idx, v) ==
    IF g.obs = "eval" /\ idx \in DOMAIN g.seen
    THEN [g EXCEPT !.seen[idx] = v]
    ELSE g

\* the ghost after the dirty-args queue is drained
DrainGhost(g) == IF g.obs = "eval" THEN [g EXCEPT !.drains = @ + 1] ELSE g

\* the ghost after the entry f taken from a drain is processed
FedGhost(g, f) ==
    IF g.obs = "eval"
    THEN [g EXCEPT !.fed = TRUE, !.served[f] = @ + 1,
                   !.owed[f] = IF @ > 0 THEN @ - 1 ELSE 0]
    ELSE g

\* a call to the layouter: add_node with the handle it returned, or
\* set_children, set_node, remove_node with the handles they were given
LayoutCall(op, h, hs) == [op |-> op, h |-> h, hs |-> hs]

\* the call names a handle that layouter l does not hold
Misused(l, call) ==
    CASE call.op = "add_node" -> FALSE
      [] call.op = "set_children" ->
           call.h \notin l.nodes \/ ~(SeqToSet(call.hs) \subseteq l.nodes)
      [] OTHER -> call.h \notin l.nodes

\* the ghost after the call is made to layouter l
LayoutGhost(g, l, call) ==
    IF g.obs = "eval"
    THEN [g EXCEPT !.lcalls = TRUE, !.log = Append(@, call),
                   !.misuse = @ \/ Misused(l, call)]
    ELSE [g EXCEPT !.lcalls = TRUE]

\* the ghost after the cells idxs are allocated or released
CellsGhost(g, idxs) ==
    CASE g.obs = "eval" ->
           [g EXCEPT !.seen = [i \in DOMAIN @ \ idxs |-> @[i]],
                     !.who  = [i \in CellIdx |-> IF i \in idxs THEN {} ELSE @[i]]]
      [] g.obs = "reg" ->
           [g EXCEPT !.regs = [i \in CellIdx |-> IF i \in idxs THEN {} ELSE @[i]],
                     !.cut  = @ \ idxs]
      [] OTHER -> g

\* the live fragments whose last evaluation listened to the listenable that
\* lives in cell idx
Listeners(g, t, fs, idx) ==
    {f \in FragIdx :
        /\ ~FreeListRemoved(fs.data, f)
        /\ \E k \in g.lastReg[f] :
              /\ k \in DOMAIN t.key_to_idx
              /\ 0 \in DOMAIN t.key_to_idx[k]
              /\ t.key_to_idx[k][0] = idx}

\* the ghost after the commit yielded (key, idx) and its dependents deps, in
\* tree t and arena fs
CommitGhost(g, t, fs, key, idx, deps) ==
    [g EXCEPT
       !.pend    = [i \in DOMAIN g.pend \ {idx} |-> g.pend[i]],
       !.over    = FALSE,
       !.log     = <<>>,
       !.due     = @ \cup Listeners(g, t, fs, idx),
       !.touched = IF g.obs = "cycle" THEN @ \cup {<<key, idx>>} ELSE @,
       !.taken   = IF g.obs \in {"cycle", "eval"} THEN @ \cup deps ELSE @,
       !.regs    = IF g.obs = "reg" THEN [@ EXCEPT ![idx] = {}] ELSE @,
       !.cut     = IF g.obs = "reg" THEN @ \cup {idx} ELSE @,
       !.who     = IF g.obs = "eval" THEN [@ EXCEPT ![idx] = {}] ELSE @,
       !.why     = IF g.obs = "eval" THEN @ \cup g.who[idx] ELSE @]

\* the ghost when update starts on tree t and arena fs
StartGhost(g, t, fs) ==
    IF g.obs = "cycle"
    THEN [CycleGhost(g) EXCEPT
            !.store0 = fs.data.item,
            !.keys0  = DOMAIN t.patch,
            !.quiet0 = g.quiet]
    ELSE [CycleGhost(g) EXCEPT !.log = <<>>]

\* the ghost when update returns
ReturnGhost(g) ==
    [CycleGhost(g) EXCEPT !.quiet = g.obs = "cycle", !.log = <<>>]

\* --------------------------------------------------- evaluation context
\* What an evaluation works on: the state store, the fragment arena, the
\* layouter, the key registry, and whether a fatal error ended it.
Ctx(w, t, fs, l, km, g) ==
    [widgets |-> w, tree |-> t, store |-> fs, layout |-> l, key_map |-> km,
     g |-> g, abort |-> FALSE]

Abort(S) == [S EXCEPT !.abort = TRUE]

\* ------------------------------------------------------------ generators
\* What one run of a widget's generator decides: the listenables it listens
\* to (its own, the root's), whether it shouts its own listenable, the
\* children it lists and the listed children whose arguments changed (a
\* child declared for the first time always gets its arguments).
Choices(w, k, km) ==
    UNION {{[ls |-> l, sh |-> s, ch |-> c, ar |-> a] :
               l \in SUBSET Audible(w, k),
               s \in IF k \in Shouters(w) THEN BOOLEAN ELSE {FALSE},
               a \in SUBSET (c \cap DOMAIN km)} :
           c \in SUBSET SeqToSet(Kids(w, k))}

Overlay(p, q) ==
    [x \in DOMAIN p \cup DOMAIN q |-> IF x \in DOMAIN q THEN q[x] ELSE p[x]]

RECURSIVE FreshPlans(_, _), KidPlans(_, _, _)
\* the plans of a first evaluation of widget k: a choice for k and for every
\* widget below it that the choices list
FreshPlans(w, k) ==
    UNION {KidPlans(w, {[x \in {k} |-> c]}, Filter(Kids(w, k), c.ch)) :
              c \in Choices(w, k, << >>)}

KidPlans(w, ps, kids) ==
    IF kids = <<>> THEN ps
    ELSE KidPlans(w, {Overlay(p, q) : p \in ps, q \in FreshPlans(w, Head(kids))},
                  Tail(kids))

FreshPlanTable ==
    [w \in Catalogues \cup Thickets |-> [k \in Keys |-> FreshPlans(w, k)]]

\* the plans of a re-evaluation of widget k: its children that the key
\* registry already resolves are not evaluated again
ReEvalPlans(w, k, km) ==
    UNION {KidPlans(w, {[x \in {k} |-> c]}, Filter(Kids(w, k), c.ch \ DOMAIN km)) :
              c \in Choices(w, k, km)}

RECURSIVE Listen(_, _, _)
\* context.listen: set_dependent on each listenable, in turn
Listen(t, ks, idx) ==
    IF ks = <<>> THEN t
    ELSE Listen(set_dependent(t, RefOf(t, HookKey(Head(ks), 0)), idx), Tail(ks), idx)

RECURSIVE Declare(_, _, _)
\* the children of a run: each child key resolves to its arena slot, a new
\* key gets a slot (add_empty_fragment, add_fragment), and new arguments are
\* stored with set_args
Declare(S, kids, ar) ==
    IF kids = <<>> THEN [S |-> S, children |-> <<>>]
    ELSE LET j    == Head(kids)
             new  == j \notin DOMAIN S.key_map
             idx  == IF new THEN add_empty_fragment(S.store) ELSE S.key_map[j]
             fs1  == IF new THEN add_empty_fragment_store(S.store) ELSE S.store
             fs2  == add_fragment(fs1, idx, UnevaluatedFragment(j))
             S1   == [S EXCEPT
                        !.store = IF new \/ j \in ar THEN set_args(fs2, idx) ELSE fs2,
                        !.key_map = [x \in DOMAIN S.key_map \cup {j} |->
                                        IF x = j THEN idx ELSE S.key_map[x]],
                        !.g.nargs[idx] = IF new \/ j \in ar THEN @ + 1 ELSE @,
                        !.g.owed[idx] = IF S.g.obs = "eval" /\ (new \/ j \in ar)
                                        THEN @ + 1 ELSE @]
         IN The({[S |-> rest.S, children |-> <<idx>> \o rest.children] :
                    rest \in {Declare(S1, Tail(kids), ar)}})

\* the cells of widget k in tree t
CellsOf(t, k) ==
    IF k \in DOMAIN t.key_to_idx
    THEN {t.key_to_idx[k][sl] : sl \in DOMAIN t.key_to_idx[k]}
    ELSE {}

\* the ghost after a generator that shouts (sh) wrote v to cell idx
ShoutGhost(g, sh, idx, v) ==
    IF sh THEN OwnWriteGhost(WriteGhost(g, idx, v), idx, v) ELSE g

\* the hooks of a run of widget k as fragment idx: the fragment is registered
\* on the listenables it listens to and reads them (t2 is the tree after
\* context.listen), and it shouts the next count of its own listenable when
\* it shouts
Hooks(S, k, idx, c, own, t2) ==
    The({[S EXCEPT
            !.tree = IF c.sh THEN set(t, o, NextCount(get_patched(t, o))) ELSE t,
            !.g    = ShoutGhost(
                         ReadGhost(
                             RunGhost(CellsGhost(@, CellsOf(t, k) \ CellsOf(S.tree, k)),
                                      idx, c.ls),
                             t, idx, {RefOf(t, HookKey(j, 0)) : j \in c.ls}),
                         c.sh, o.idx, NextCount(get_patched(t, o)))] :
            o \in {own}, t \in {t2}})

\* one run of the generator of widget k, evaluated as fragment idx: its
\* listenable is initialized, it listens, shouts and declares its children
Gen(S, k, idx, c) ==
    The({Declare(h, Filter(Kids(S.widgets, k), c.ch), c.ar) :
            h \in {Hooks(S, k, idx, c, initialize(S.tree, HookKey(k, 0), 0),
                         Listen(IF k \in Stateful(S.widgets)
                                THEN initialize_tree(S.tree, HookKey(k, 0), 0)
                                ELSE S.tree,
                                SetToSeq(c.ls), idx))}})

\* ------------------------------------------------------- EvaluatorInner
LayoutIdxs(fs, children) ==
    [i \in DOMAIN children |-> get(fs, children[i]).layout_idx]

AllEvaluated(fs, children) ==
    \A i \in DOMAIN children : get(fs, children[i]).tag = "Evaluated"

RECURSIVE evaluate_unconditional(_, _, _), EvaluateChildren(_, _, _)
\* evaluate_unconditional, l. 122-136: the layouter is told the children of
\* the new node and the fragment becomes evaluated
Evaluated(S, frag, layout_idx, children, fragment_idx) ==
    IF S.abort THEN S
    ELSE IF ~AllEvaluated(S.store, children) THEN Abort(S)
    ELSE [S EXCEPT
            !.layout = set_children(@, layout_idx, LayoutIdxs(S.store, children)),
            !.store.data.item[fragment_idx].fragment =
                EvaluatedFragment(frag.key, frag.gen, layout_idx, fragment_idx,
                                  children),
            !.g = LayoutGhost(@, S.layout,
                              LayoutCall("set_children", layout_idx,
                                         LayoutIdxs(S.store, children)))]

\* an evaluation that adds the node of a fragment after it evaluated the
\* children
UnpackedAddsLast(r, frag, fragment_idx, plan) ==
    The({Evaluated([S EXCEPT
                      !.layout = add_node_layout(@),
                      !.g = LayoutGhost(@, S.layout,
                                LayoutCall("add_node", add_node(S.layout), <<>>))],
                   frag, add_node(S.layout), r.children, fragment_idx) :
            S \in {EvaluateChildren(r.S, r.children, plan)}})

\* evaluate_unconditional, l. 113-120: the generator has run (r); the node is
\* added to the layouter and the children are evaluated
Unpacked(r, frag, fragment_idx, plan) ==
    The({Evaluated(S, frag, add_node(r.S.layout), r.children, fragment_idx) :
            S \in {EvaluateChildren([r.S EXCEPT
                                       !.layout = add_node_layout(@),
                                       !.g = LayoutGhost(@, r.S.layout,
                                                 LayoutCall("add_node",
                                                            add_node(r.S.layout), <<>>))],
                                    r.children, plan)}})

\* evaluate_unconditional, l. 105-111: the generator of the fragment runs
Generate(S, frag, fragment_idx, plan) ==
    The({Unpacked(r, frag, fragment_idx, plan) :
            r \in {Gen(S, frag.key, fragment_idx, plan[frag.key])}})

evaluate_unconditional(S, fragment_idx, plan) ==
    IF S.abort THEN S
    ELSE IF get(S.store, fragment_idx).tag # "Unevaluated" THEN Abort(S)
    ELSE Generate(S, get(S.store, fragment_idx), fragment_idx, plan)

EvaluateChildren(S, children, plan) ==
    IF children = <<>> \/ S.abort THEN S
    ELSE The({EvaluateChildren(S1, Tail(children), plan) :
                 S1 \in {evaluate_unconditional(S, Head(children), plan)}})

\* swap_remove that leaves the old children as they are
SwapRemoveNone(old, x) == old

\* Vec::swap_remove of the first position holding x, when there is one
SwapRemove(old, x) ==
    IF x \notin SeqToSet(old) THEN old
    ELSE LET i == CHOOSE j \in DOMAIN old :
                     old[j] = x /\ \A h \in DOMAIN old : old[h] = x => j <= h
             n == Len(old)
         IN [j \in 1..(n - 1) |-> IF j = i THEN old[n] ELSE old[j]]

RECURSIVE remove_tree(_, _), RemoveTrees(_, _)
\* a teardown that leaves the layout node of the fragment with the layouter
ReleasedLeaksNode(S, f) ==
    IF S.abort THEN S
    ELSE [S EXCEPT
            !.tree    = remove_widget(@, f.key),
            !.key_map = [x \in DOMAIN S.key_map \ {f.key} |-> S.key_map[x]],
            !.store   = remove(@, f.store_idx),
            !.g       = CellsGhost(GoneGhost(@, f.store_idx), CellsOf(S.tree, f.key))]

\* remove_tree, l. 264-270: the children are gone; the widget's cells, its
\* layout node, its key and its arena slot are released
Released(S, f) ==
    IF S.abort THEN S
    ELSE [S EXCEPT
            !.tree    = remove_widget(@, f.key),
            !.layout  = remove_node(@, f.layout_idx),
            !.key_map = [x \in DOMAIN S.key_map \ {f.key} |-> S.key_map[x]],
            !.store   = remove(@, f.store_idx),
            !.g       = LayoutGhost(
                            CellsGhost(GoneGhost(@, f.store_idx),
                                       CellsOf(S.tree, f.key)),
                            S.layout, LayoutCall("remove_node", f.layout_idx, <<>>))]

remove_tree(S, frag) ==
    IF S.abort THEN S
    ELSE IF get(S.store, frag).tag # "Evaluated" THEN Abort(S)
    ELSE The({Released(S1, get(S.store, frag)) :
                 S1 \in {RemoveTrees(S, get(S.store, frag).children)}})

RemoveTrees(S, children) ==
    IF children = <<>> \/ S.abort THEN S
    ELSE The({RemoveTrees(S1, Tail(children)) :
                 S1 \in {remove_tree(S, Head(children))}})

RECURSIVE Reconcile(_, _, _, _)
\* the loop of re_eval_fragment over the new children: an unevaluated child
\* is evaluated, an evaluated one leaves the old children
Reconcile(S, children, old, plan) ==
    IF children = <<>> \/ S.abort THEN [S |-> S, old |-> old]
    ELSE LET c == Head(children)
         IN CASE get(S.store, c).tag = "Unevaluated" ->
                   The({Reconcile(S1, Tail(children), old, plan) :
                           S1 \in {evaluate_unconditional(S, c, plan)}})
              [] get(S.store, c).tag = "Evaluated" ->
                   The({Reconcile(S, Tail(children), left, plan) :
                           left \in {SwapRemove(old, c)}})
              [] OTHER -> [S |-> Abort(S), old |-> old]

\* the ghost after re_eval_fragment told layouter l the children hs of node h
\* (when it tells them: both) and the node
SettleGhost(g, l, h, both, hs) ==
    LayoutGhost(IF both THEN LayoutGhost(g, l, LayoutCall("set_children", h, hs))
                ELSE g,
                l, LayoutCall("set_node", h, <<>>))

\* re_eval_fragment, l. 221-244: the layouter is told the children and the
\* node, the fragment keeps the new children, and the old children that are
\* left are removed
Settled(S, f, children, old, frag_idx) ==
    IF S.abort THEN S
    ELSE IF (Len(f.children) # 0 \/ Len(children) # 0)
            /\ ~AllEvaluated(S.store, children)
    THEN Abort(S)
    ELSE The({RemoveTrees(S1, old) :
                 S1 \in {[S EXCEPT
                            !.store.data.item[frag_idx].fragment.children = children,
                            !.layout = set_node(
                                           IF Len(f.children) # 0 \/ Len(children) # 0
                                           THEN set_children(@, f.layout_idx,
                                                             LayoutIdxs(S.store, children))
                                           ELSE @,
                                           f.layout_idx),
                            !.g = SettleGhost(@, S.layout, f.layout_idx,
                                              Len(f.children) # 0 \/ Len(children) # 0,
                                              LayoutIdxs(S.store, children))]}})

\* re_eval_fragment, l. 196-219: the old children that the loop leaves
Reconciled(m, f, children, frag_idx) == Settled(m.S, f, children, m.old, frag_idx)

\* re_eval_fragment, l. 187-194: the generator has run (r); the old children
\* are taken out of the fragment
Regenerated(r, f, frag_idx, plan) ==
    The({Reconciled(m, f, r.children, frag_idx) :
            m \in {Reconcile([r.S EXCEPT
                                !.store.data.item[frag_idx].fragment.children = <<>>],
                             r.children, f.children, plan)}})

\* re_eval_fragment, l. 169-186: the generator of an evaluated fragment runs
Regenerate(S, f, frag_idx, plan) ==
    The({Regenerated(r, f, frag_idx, plan) :
            r \in {Gen(S, f.key, frag_idx, plan[f.key])}})

re_eval_fragment(S, frag_idx, plan) ==
    IF S.abort \/ removed(S.store, frag_idx) THEN S
    ELSE IF get(S.store, frag_idx).tag = "Unevaluated"
    THEN evaluate_unconditional(S, frag_idx, plan)
    ELSE Regenerate(S, get(S.store, frag_idx), frag_idx, plan)

\* the plans a re-evaluation request for arena index idx can meet
PlansFor(w, fs, km, idx) ==
    IF removed(fs, idx) THEN {<< >>}
    ELSE IF get(fs, idx).tag = "Unevaluated" THEN FreshPlanTable[w][get(fs, idx).key]
    ELSE ReEvalPlans(w, get(fs, idx).key, km)

\* ------------------------------------------------------------ the state
VARIABLES
    widgets,    \* the catalogue the author declared
    tree,       \* Arc<PatchedTree>, shared with the writer threads
    store,      \* Evaluator.fragment_store
    layout,     \* the Layouter handed to new and update
    key_map,    \* Evaluator.key_map: the arena slot each declared key resolves to
    pc,         \* where Evaluator::update stands: idle, commit, reeval, dirty, done, abort
    keys,       \* update_tree: the patch keys collected and not yet drained
    to_update,  \* update: the fragments still to re-evaluate
    todo,       \* update: the drained dirty-args entries still to re-evaluate
    ret,        \* what update returns (read when pc = "done")
    writes,     \* how often the writer threads have shouted
    calls,      \* how many calls the caller of the state store alone has made
    context,    \* the WidgetContext a generator runs in, with the ExternalHookCount
    g           \* ghosts

vars == <<widgets, tree, store, layout, key_map, pc, keys, to_update, todo, ret,
          writes, calls, context, g>>

Here == Ctx(widgets, tree, store, layout, key_map, [g EXCEPT !.log = <<>>])

\* Evaluator::new: the root fragment is added and evaluated, and the
\* dirty-args of the first pass are dropped
new(w, plan, obs) ==
    LET fs0 == NewFragmentStore
        top == add_empty_fragment(fs0)
        fs1 == add_fragment(add_empty_fragment_store(fs0), top,
                            UnevaluatedFragment(Root))
        S0  == Ctx(w, NewPatchedTree, fs1, NewLayouter, [x \in {Root} |-> top],
                   NewGhost(obs))
        S1  == evaluate_unconditional(S0, top, plan)
    IN [S1 EXCEPT !.store = dirty_args_store(@), !.g = CycleGhost(@)]

\* the trees the observer obs watches
Authored(obs) == IF obs = "eval" THEN Thickets ELSE Catalogues

\* the state Evaluator::new leaves; a fatal error in the root evaluation
\* ends the program
InitWith(obs) ==
    /\ widgets \in Authored(obs)
    /\ \E plan \in FreshPlanTable[widgets][Root] :
          \E S \in {new(widgets, plan, obs)} :
             /\ tree = S.tree
             /\ store = S.store
             /\ layout = S.layout
             /\ key_map = S.key_map
             /\ g = S.g
             /\ pc = IF S.abort THEN "abort" ELSE "idle"
    /\ keys = {}
    /\ to_update = {}
    /\ todo = <<>>
    /\ ret = FALSE
    /\ writes = 0
    /\ calls = 0
    /\ context = root

\* a writer (a callback, another thread) shouts a value: PatchedTree::set
thread_set ==
    /\ pc \notin {"abort", "done"}
    /\ writes < MaxWrites
    /\ writes' = writes + 1
    /\ \E ref \in LiveRefs(tree), v \in Shouts(widgets) :
          /\ tree' = set(tree, ref, v)
          /\ g' = [WriteGhost(g, ref.idx, v)
                     EXCEPT !.conc = @ \/ (g.obs = "cycle" /\ pc = "commit"),
                            !.log = <<>>,
                            !.over = ref.idx \in DOMAIN g.pend
                                     /\ g.pend[ref.idx] # v]
    /\ UNCHANGED <<context, widgets, store, layout, key_map, pc, keys, to_update, todo, ret,
                   calls>>

\* an update that does not consume update_tree's iterator
AfterTouchedUnconsumed(ks, tu) == IF tu = {} THEN "done" ELSE "reeval"

\* an update without the early return
AfterTouchedGoesOn(ks, tu) == IF ks # {} THEN "commit" ELSE "reeval"

\* update, l. 64-66: where update stands once update_tree's iterator is
\* exhausted: with nothing to update it returns false
AfterTouched(ks, tu) ==
    IF ks # {} THEN "commit" ELSE IF tu = {} THEN "done" ELSE "reeval"

\* update, l. 54-56: update_tree collects the keys of the patch map
update_tree ==
    /\ pc = "idle"
    /\ keys' = DOMAIN tree.patch
    /\ to_update' = {}
    /\ pc' = AfterTouched(keys', {})
    /\ ret' = FALSE
    /\ g' = StartGhost(g, tree, store)
    /\ UNCHANGED <<context, widgets, tree, store, layout, key_map, todo, writes, calls>>

\* an iterator that applies the patch and leaves it in the map
update_tree_next_keeps(t, idx) == set_unconditional(t, idx, t.patch[idx].value)

\* the tree after one item of update_tree's iterator: the patch is removed
\* and applied with set_unconditional
update_tree_next(t, idx) ==
    set_unconditional(
        [t EXCEPT !.patch = [i \in DOMAIN t.patch \ {idx} |-> t.patch[i]]],
        idx, t.patch[idx].value)

\* update, l. 57-62: one touched key is drained and its dependents are taken.
\* The patch of a released cell indexes a freed slot of the FreeList: the
\* access faults or goes through.
update_touched ==
    /\ pc = "commit"
    /\ \E idx \in keys :
       \E fault \in IF FreeListRemoved(tree.data, idx) THEN BOOLEAN ELSE {FALSE} :
          LET ref == HookRef(tree.patch[idx].key, idx)
              t1  == update_tree_next(tree, idx)
          IN /\ tree' = dependents_tree(t1, ref)
             /\ to_update' = to_update \cup dependents(t1, ref)
             /\ keys' = keys \ {idx}
             /\ pc' = IF fault THEN "abort" ELSE AfterTouched(keys', to_update')
             /\ g' = CommitGhost(g, tree, store, ref.key, idx, t1.data.item[idx].deps)
    /\ UNCHANGED <<context, widgets, store, layout, key_map, todo, ret, writes, calls>>

\* a drain loop whose end reports what its last drain processed: nothing
DrainedReportsLast(S, rest) ==
    IF S.abort
    THEN [pc |-> "abort", todo |-> rest, store |-> S.store, ret |-> FALSE, g |-> S.g]
    ELSE IF rest # <<>>
    THEN [pc |-> "dirty", todo |-> rest, store |-> S.store, ret |-> FALSE, g |-> S.g]
    ELSE [pc    |-> IF dirty_args(S.store) = <<>> THEN "done" ELSE "dirty",
          todo  |-> dirty_args(S.store),
          store |-> dirty_args_store(S.store),
          ret   |-> FALSE,
          g     |-> DrainGhost(S.g)]

\* update, l. 72-88: once the fragments at hand are re-evaluated the
\* dirty-args queue is drained; an empty drain ends the update, which
\* returns true
Drained(S, rest) ==
    IF S.abort
    THEN [pc |-> "abort", todo |-> rest, store |-> S.store, ret |-> FALSE, g |-> S.g]
    ELSE IF rest # <<>>
    THEN [pc |-> "dirty", todo |-> rest, store |-> S.store, ret |-> FALSE, g |-> S.g]
    ELSE [pc    |-> IF dirty_args(S.store) = <<>> THEN "done" ELSE "dirty",
          todo  |-> dirty_args(S.store),
          store |-> dirty_args_store(S.store),
          ret   |-> dirty_args(S.store) = <<>>,
          g     |-> DrainGhost(S.g)]

\* update, l. 68-70: one fragment of to_update is re-evaluated
update_re_eval ==
    /\ pc = "reeval"
    /\ \E idx \in to_update :
          /\ \E plan \in PlansFor(widgets, store, key_map, idx) :
                \E S \in {re_eval_fragment(Here, idx, plan)} :
                \E d \in {Drained(S, <<>>)} :
                   /\ tree' = S.tree
                   /\ layout' = S.layout
                   /\ key_map' = S.key_map
                   /\ IF to_update = {idx} \/ S.abort
                      THEN store' = d.store /\ todo' = d.todo /\ pc' = d.pc
                           /\ ret' = d.ret /\ g' = [d.g EXCEPT !.over = FALSE]
                      ELSE store' = S.store /\ todo' = todo /\ pc' = "reeval"
                           /\ ret' = ret /\ g' = [S.g EXCEPT !.over = FALSE]
          /\ to_update' = to_update \ {idx}
    /\ UNCHANGED <<context, widgets, keys, writes, calls>>

\* update, l. 74-83: one drained fragment is re-evaluated
update_dirty ==
    /\ pc = "dirty"
    /\ \E plan \in PlansFor(widgets, store, key_map, Head(todo)) :
          \E S \in {re_eval_fragment(Here, Head(todo), plan)} :
          \E d \in {Drained(S, Tail(todo))} :
             /\ tree' = S.tree
             /\ layout' = S.layout
             /\ key_map' = S.key_map
             /\ g' = [FedGhost(d.g, Head(todo)) EXCEPT !.over = FALSE]
             /\ store' = d.store
             /\ todo' = d.todo
             /\ pc' = d.pc
             /\ ret' = d.ret
    /\ UNCHANGED <<context, widgets, keys, to_update, writes, calls>>

\* update has returned
update_return ==
    /\ pc = "done"
    /\ pc' = "idle"
    /\ ret' = FALSE
    /\ g' = ReturnGhost(g)
    /\ UNCHANGED <<context, widgets, tree, store, layout, key_map, keys, to_update, todo,
                   writes, calls>>

Next ==
    \/ thread_set
    \/ update_tree
    \/ update_touched
    \/ update_re_eval
    \/ update_dirty
    \/ update_return

\* the program under the observer of cycles
Init == InitWith("cycle")

Spec == Init /\ [][Next]_vars

\* the program under the observer of registrations
InitReg == InitWith("reg")

SpecReg == InitReg /\ [][Next]_vars

\* the program under the observer of evaluations
InitEval == InitWith("eval")

SpecEval == InitEval /\ [][Next]_vars

\* update is straight-line code on one thread: once called it goes on to its
\* return or to a fatal error
UpdateSteps == update_touched \/ update_re_eval \/ update_dirty

SpecEvalFair == InitEval /\ [][Next]_vars /\ WF_vars(UpdateSteps)

\* ------------------------------------------------- the state store alone
\* The PatchedTree under a caller that makes any call with any argument, one
\* call at a time: initialize, set, get_patched, set_dependent, dependents,
\* remove_widget, and update_tree consumed to its end.
InitTree ==
    /\ widgets = "counter"
    /\ tree = NewPatchedTree
    /\ store = NewFragmentStore
    /\ layout = NewLayouter
    /\ key_map = << >>
    /\ g = NewGhost("api")
    /\ pc = "api"
    /\ keys = {}
    /\ to_update = {}
    /\ todo = <<>>
    /\ ret = FALSE
    /\ writes = 0
    /\ calls = 0
    /\ context = root

\* the hook keys the callers of the state store use: two slots of the root
\* and one slot of another widget
CallerKeys == {HookKey(Root, sl) : sl \in HookSlots} \cup {HookKey(2, 0)}

\* a function with x mapped to y
With(f, x, y) == [i \in DOMAIN f \cup {x} |-> IF i = x THEN y ELSE f[i]]

\* a function without the arguments in S
Without(f, S) == [i \in DOMAIN f \ S |-> f[i]]

\* what a call leaves alone, and the count of the calls
TreeFrame ==
    /\ calls < MaxCalls
    /\ calls' = calls + 1
    /\ UNCHANGED <<context, widgets, store, layout, key_map, keys, to_update, todo, ret>>

call_initialize ==
    /\ pc = "api"
    /\ \E key \in CallerKeys, v \in Vals :
          LET ref == initialize(tree, key, v)
          IN /\ HasCell(tree, key) \/ FreeListNext(tree.data) \in CellIdx
             /\ tree' = initialize_tree(tree, key, v)
             /\ g' = [g EXCEPT
                        !.op = [name |-> "initialize", ref |-> ref, value |-> v,
                                found |-> HasCell(tree, key)],
                        !.comm = IF HasCell(tree, key) THEN @ ELSE With(@, ref.idx, v),
                        !.applied = IF HasCell(tree, key) THEN @ ELSE @ \ {ref.idx},
                        !.over = FALSE]
    /\ UNCHANGED <<pc, writes>>
    /\ TreeFrame

call_set ==
    /\ pc = "api"
    /\ \E ref \in LiveRefs(tree), v \in Vals :
          /\ tree' = set(tree, ref, v)
          /\ g' = [WriteGhost(g, ref.idx, v) EXCEPT
                     !.op = NoCall,
                     !.over = ref.idx \in DOMAIN g.pend /\ g.pend[ref.idx] # v]
    /\ UNCHANGED <<pc, writes>>
    /\ TreeFrame

call_get_patched ==
    /\ pc = "api"
    /\ \E ref \in LiveRefs(tree) :
          g' = [g EXCEPT !.op = [name |-> "get_patched", ref |-> ref,
                                 value |-> get_patched(tree, ref)],
                         !.over = FALSE]
    /\ UNCHANGED <<tree, pc, writes>>
    /\ TreeFrame

call_set_dependent ==
    /\ pc = "api"
    /\ \E ref \in LiveRefs(tree) :
          /\ tree' = set_dependent(tree, ref, Root)
          /\ g' = [g EXCEPT !.op = NoCall, !.over = FALSE]
    /\ UNCHANGED <<pc, writes>>
    /\ TreeFrame

call_dependents ==
    /\ pc = "api"
    /\ \E ref \in LiveRefs(tree) :
          /\ tree' = dependents_tree(tree, ref)
          /\ g' = [g EXCEPT !.op = NoCall, !.over = FALSE]
    /\ UNCHANGED <<pc, writes>>
    /\ TreeFrame

call_remove_widget ==
    /\ pc = "api"
    /\ \E k \in DOMAIN tree.key_to_idx :
          /\ tree' = remove_widget(tree, k)
          /\ g' = [g EXCEPT
                     !.op = [name |-> "remove_widget", key |-> k],
                     !.comm = Without(@, {tree.key_to_idx[k][sl] :
                                             sl \in DOMAIN tree.key_to_idx[k]}),
                     !.applied = @ \ {tree.key_to_idx[k][sl] :
                                         sl \in DOMAIN tree.key_to_idx[k]},
                     !.over = FALSE]
    /\ UNCHANGED <<pc, writes>>
    /\ TreeFrame

RECURSIVE UpdateTreeAll(_, _)
\* the tree after update_tree's iterator yielded an item for each of idxs
UpdateTreeAll(t, idxs) ==
    IF idxs = <<>> THEN t
    ELSE UpdateTreeAll(update_tree_next(t, Head(idxs)), Tail(idxs))

\* update_tree consumed to its end with no other call in between; the patch
\* of a released cell indexes a freed slot: the access faults or goes through
call_update_tree ==
    /\ pc = "api"
    /\ \E fault \in IF \E i \in DOMAIN tree.patch : FreeListRemoved(tree.data, i)
                    THEN BOOLEAN ELSE {FALSE} :
          /\ pc' = IF fault THEN "abort" ELSE "api"
          /\ tree' = UpdateTreeAll(tree, SetToSeq(DOMAIN tree.patch))
          /\ g' = [g EXCEPT
                     !.op = NoCall,
                     !.comm = [i \in DOMAIN g.comm |->
                                  IF i \in DOMAIN g.pend THEN g.pend[i] ELSE g.comm[i]],
                     !.applied = @ \cup (DOMAIN g.pend \cap DOMAIN g.comm),
                     !.pend = << >>,
                     !.over = FALSE]
    /\ UNCHANGED writes
    /\ TreeFrame

NextTree ==
    \/ call_initialize
    \/ call_set
    \/ call_get_patched
    \/ call_set_dependent
    \/ call_dependents
    \/ call_remove_widget
    \/ call_update_tree

SpecTree == InitTree /\ [][NextTree]_vars

\* ------------------------------------------------------ the hook keys alone
\* A WidgetContext under a caller that asks for hook keys, local and
\* external, with and without a state cell behind them, and takes a new
\* context for a fragment whenever it evaluates one. The counters (local,
\* external) start where a run of the program gets them with no slot handed
\* out twice between the local and the external ones: at 0, and two calls
\* short of the tag bit and of the end of a u16.
HookKeys == {Root, 2}

HookStarts ==
    ({0, ExternalTag - 2} \X {0, ExternalTag - 2, U16 - 2}) \cup {<<U16 - 2, 0>>}

\* of the slots that n local calls of one context hand out, the first and
\* the last
LocalSlots(n) == IF n = 0 THEN {} ELSE {0, n - 1}

\* of the slots that n external calls for one key hand out, the first and
\* the last
ExternalSlots(n) == IF n = 0 THEN {} ELSE {OrExternalTag(0), OrExternalTag(n - 1)}

InitHook ==
    /\ widgets = "counter"
    /\ tree = NewPatchedTree
    /\ store = NewFragmentStore
    /\ layout = NewLayouter
    /\ key_map = << >>
    /\ pc = "hook"
    /\ keys = {}
    /\ to_update = {}
    /\ todo = <<>>
    /\ ret = FALSE
    /\ writes = 0
    /\ calls = 0
    /\ \E start \in HookStarts :
          /\ context = WidgetContext([for_key(Root) EXCEPT !.hook_counter = start[1]],
                                     TRUE,
                                     [NewExternalHookCount EXCEPT ![Root] = start[2]])
          /\ g = [NewGhost("hook") EXCEPT
                    !.nloc = start[1],
                    !.locals[Root] = LocalSlots(start[1]),
                    !.externs[Root] = ExternalSlots(start[2])]

\* what a call leaves alone, and the count of the calls
HookFrame ==
    /\ pc = "hook"
    /\ calls < MaxCalls
    /\ calls' = calls + 1
    /\ UNCHANGED <<widgets, store, layout, key_map, keys, to_update, todo, ret, writes>>

\* the ghost after key_for_hook returned key to context ctx, which then
\* found (or not) a cell under it and supplied value v
HookGhost(gh, ctx, key, found, v) ==
    [gh EXCEPT
       !.op      = [name |-> "key_for_hook", key |-> key, local |-> ctx.local_hook,
                    nth |-> gh.nloc + 1, found |-> found, value |-> v],
       !.nloc    = IF ctx.local_hook THEN @ + 1 ELSE @,
       !.locals  = IF ctx.local_hook THEN [@ EXCEPT ![key[1]] = @ \cup {key[2]}] ELSE @,
       !.externs = IF ctx.local_hook THEN @ ELSE [@ EXCEPT ![key[1]] = @ \cup {key[2]}]]

\* the caller evaluates a fragment: a new context for its key
call_for_fragment ==
    /\ \E key \in HookKeys : context' = for_fragment(context, key)
    /\ g' = [g EXCEPT !.op = [name |-> "for_fragment"], !.nloc = 0]
    /\ UNCHANGED <<tree, pc>>
    /\ HookFrame

\* the caller sets the pub field local_hook
call_set_local_hook ==
    /\ context' = [context EXCEPT !.local_hook = ~@]
    /\ g' = [g EXCEPT !.op = [name |-> "local_hook"]]
    /\ UNCHANGED <<tree, pc>>
    /\ HookFrame

\* key_for_hook panics on the overflow of its counter
call_key_for_hook_panics ==
    /\ Overflows(context)
    /\ pc' = "abort"
    /\ g' = [g EXCEPT !.op = [name |-> "panic"]]
    /\ UNCHANGED <<tree, context>>
    /\ HookFrame

\* key_for_hook, for a hook that keeps no state cell
call_key_for_hook ==
    /\ context' = key_for_hook_context(context)
    /\ g' = HookGhost(g, context, key_for_hook(context), FALSE, 0)
    /\ UNCHANGED <<tree, pc>>
    /\ HookFrame

\* key_for_hook and initialize on the key it returns, for a hook that keeps
\* a state cell
call_key_for_hook_initialize ==
    /\ \E v \in Vals, key \in {key_for_hook(context)} :
          /\ HasCell(tree, key) \/ FreeListNext(tree.data) \in CellIdx
          /\ tree' = initialize_tree(tree, key, v)
          /\ g' = HookGhost(g, context, key, HasCell(tree, key), v)
    /\ context' = key_for_hook_context(context)
    /\ UNCHANGED pc
    /\ HookFrame

\* a writer shouts into a cell
call_hook_set ==
    /\ \E ref \in LiveRefs(tree) : tree' = set_unconditional(tree, ref.idx, MaxVal)
    /\ g' = [g EXCEPT !.op = [name |-> "set"]]
    /\ UNCHANGED <<context, pc>>
    /\ HookFrame

NextHook ==
    \/ call_for_fragment
    \/ call_set_local_hook
    \/ call_key_for_hook_panics
    \/ call_key_for_hook
    \/ call_key_for_hook_initialize
    \/ call_hook_set

SpecHook == InitHook /\ [][NextHook]_vars

\* ------------------------------------------------------------- claims
\* C1: no lost update. When update returns, no live fragment whose last
\* evaluation listened to a cell is still owed a run for a write to that
\* cell that this update committed: each has run in this cycle after the
\* commit, or was torn down.
NoLostUpdate == pc = "done" => g.due = {}

\* update has returned after a committed write owed a live listener a run
\* and the listener ran
NoLostUpdateWitness ==
    /\ pc = "done"
    /\ ret
    /\ \E f \in g.paid : ~removed(store, f) /\ g.runs[f] >= 1

\* the children of arena slot f in the arena records items
ChildrenOf(items, f) ==
    IF items[f].fragment.tag = "Evaluated"
    THEN SeqToSet(items[f].fragment.children)
    ELSE {}

RECURSIVE Reach(_, _)
\* the arena slots reachable from the slots S through child lists
Reach(items, S) ==
    LET n == S \cup UNION {ChildrenOf(items, f) : f \in S}
    IN IF n = S THEN S ELSE Reach(items, n)

\* the commit of the running update is over
Committed == pc \in {"reeval", "dirty", "done"}

\* the fragments, evaluated when update started, that no cell the commit
\* touched reaches through its dependents and their descendants
Unreached ==
    {f \in FragIdx : /\ g.store0[f].fragment.tag = "Evaluated"
                     /\ f \notin Reach(g.store0, g.taken)}

LiveTaken ==
    {f \in g.taken : g.store0[f].fragment.tag = "Evaluated" /\ f \notin g.gone}

\* C3 as stated, read for the dependents that stay live: after a write to a
\* cell with dependents, update returns "changed" and has run the generator
\* of each dependent exactly once.
DependentsRunOnce ==
    (pc = "done" /\ g.taken # {}) =>
        /\ ret
        /\ \A f \in LiveTaken : g.runs[f] = 1

\* C3, amended: after a write to a cell with dependents, update returns
\* "changed" and has run the generator of each dependent that stayed live
\* once for the write and once more for every set_args on it in the cycle.
DependentsRun ==
    (pc = "done" /\ g.taken # {}) =>
        /\ ret
        /\ \A f \in LiveTaken : g.runs[f] = 1 + g.nargs[f]

\* update has returned after a dependent of a written cell also got new
\* arguments from another fragment re-evaluated in the cycle
DependentsRunWitness ==
    /\ pc = "done"
    /\ ret
    /\ \E f \in LiveTaken : g.nargs[f] >= 1 /\ g.runs[f] >= 2

\* no generator has run and the layouter was not called in the cycle
NothingRan == (\A f \in FragIdx : g.runs[f] = 0) /\ ~g.lcalls

\* C4 as stated, for the writes: an update called when no write has occurred
\* since the update before returned reports "no change", runs nothing and
\* commits nothing.
QuietUpdateNoChange ==
    (pc = "done" /\ g.quiet0) =>
        /\ ~ret
        /\ NothingRan
        /\ g.touched = {}
        /\ store.data.item = g.store0

\* update starts: the step that leaves idle
UpdateStarts == pc = "idle" /\ pc' # "idle"

\* C4, amended: an update called with an empty patch buffer returns at once,
\* reports "no change", runs no generator, calls no layouter operation, and
\* leaves the state store (values, dependent sets, keys), the fragment arena,
\* the layouter and the key registry as they were.
EmptyBufferNoChange ==
    [][(UpdateStarts /\ DOMAIN tree.patch = {}) =>
          /\ pc' = "done"
          /\ ret' = FALSE
          /\ tree' = tree
          /\ store' = store
          /\ layout' = layout
          /\ key_map' = key_map
          /\ NothingRan']_vars

\* a second update with no write in between met an empty buffer and has
\* returned "no change"
EmptyBufferWitness ==
    /\ pc = "done"
    /\ g.quiet0
    /\ g.keys0 = {}
    /\ ~ret

\* the cells registered in tree t
LiveCells(t) ==
    UNION {{t.key_to_idx[k][sl] : sl \in DOMAIN t.key_to_idx[k]} :
              k \in DOMAIN t.key_to_idx}

\* C5: initialize is idempotent per (Key, slot). In every tree a caller
\* reaches, for every key, slot and value: with the HookKey registered,
\* initialize returns the HookRef it is registered under and leaves the tree
\* (committed values, patches, dependent sets) as it is; with the HookKey not
\* registered, initialize allocates a cell no key is registered under, with
\* an empty dependent set and the given value, touches no other cell, and a
\* second initialize with any value returns the same HookRef and changes
\* nothing. After a call that found its key, the cell holds the committed
\* value it held before.
InitializeIdempotent ==
    /\ \A k \in Keys, sl \in HookSlots, v \in Vals :
       \A t2 \in {initialize_tree(tree, HookKey(k, sl), v)} :
       \A r \in {initialize(tree, HookKey(k, sl), v)} :
           IF HasCell(tree, HookKey(k, sl))
           THEN r = RefOf(tree, HookKey(k, sl)) /\ t2 = tree
           ELSE /\ r.key = HookKey(k, sl)
                /\ r.idx \notin LiveCells(tree)
                /\ HasCell(t2, r.key) /\ RefOf(t2, r.key) = r
                /\ ~FreeListRemoved(t2.data, r.idx)
                /\ t2.data.item[r.idx] = Cell({}, v)
                /\ t2.patch = tree.patch
                /\ \A i \in CellIdx \ {r.idx} : t2.data.item[i] = tree.data.item[i]
                /\ \A v2 \in Vals :
                      /\ initialize(t2, r.key, v2) = r
                      /\ initialize_tree(t2, r.key, v2) = t2
    /\ (g.op.name = "initialize" /\ g.op.found) =>
           /\ RefOf(tree, g.op.ref.key) = g.op.ref
           /\ get_unpatched(tree, g.op.ref) = g.comm[g.op.ref.idx]

\* a caller initialized a key again with a value other than the committed
\* one, the cell having a dependent and a buffered write
InitializeWitness ==
    /\ g.op.name = "initialize"
    /\ g.op.found
    /\ get_unpatched(tree, g.op.ref) # g.op.value
    /\ tree.data.item[g.op.ref.idx].deps # {}
    /\ HasPatch(tree, g.op.ref.idx)

\* the value the last write left for cell idx, or, with no write
\* outstanding, the value the cell holds as committed
Written(idx) == IF idx \in DOMAIN g.pend THEN g.pend[idx] ELSE g.comm[idx]

\* C6: set never mutates committed state. In every state a caller reaches
\* without a fault, whatever writes were made since the last commit, every
\* registered cell's committed value (get_unpatched) is its initial value or
\* the value the last commit applied to it, and the patch map holds, for
\* each cell written since, one patch with the value written last.
WriteLeavesCommitted ==
    pc # "abort" =>
        /\ \A ref \in LiveRefs(tree) : get_unpatched(tree, ref) = g.comm[ref.idx]
        /\ DOMAIN tree.patch = DOMAIN g.pend
        /\ \A i \in DOMAIN tree.patch : tree.patch[i].value = g.pend[i]

\* the last call wrote a cell that had a buffered write of another value,
\* and the value written is not the committed one
WriteLeavesCommittedWitness ==
    /\ g.over
    /\ \E ref \in LiveRefs(tree) :
          /\ ref.idx \in DOMAIN g.pend
          /\ g.pend[ref.idx] # g.comm[ref.idx]
          /\ get_unpatched(tree, ref) = g.comm[ref.idx]

\* C7: get_patched returns the pending value of a cell that has a patch and
\* the committed value otherwise: in every state a caller reaches without a
\* fault, a read of a registered cell returns the value written to it last,
\* before the commit (from the patch) and after it (from the cell), and the
\* initial value of a cell never written; and a read changes nothing in the
\* tree, so it registers no dependency.
ReadsPendingElseCommitted ==
    /\ [](pc # "abort" =>
            /\ \A ref \in LiveRefs(tree) : get_patched(tree, ref) = Written(ref.idx)
            /\ g.op.name = "get_patched" => g.op.value = Written(g.op.ref.idx))
    /\ [][g'.op.name = "get_patched" => tree' = tree]_vars

\* the last call read a cell after a commit applied a write to it
ReadsPendingWitness ==
    /\ g.op.name = "get_patched"
    /\ g.op.ref.idx \in g.applied
    /\ g.op.ref.idx \notin DOMAIN g.pend
    /\ g.op.value = g.comm[g.op.ref.idx]

\* a step of update in which update_tree's iterator yields an item
CommitStep == pc = "commit" /\ keys' # keys

\* the step of update with which the commit ends
CommitEnds == pc \in {"idle", "commit"} /\ pc' \in {"reeval", "done"}

\* C8 as stated: a commit consumed to its end with no concurrent writer
\* drains every buffered patch. Each item the iterator yields removes one
\* patch, stores the value written last in that cell and in no other, and
\* carries the HookKey registered for that cell; when the commit ends with
\* no write made during it, the patch buffer is empty and the yielded keys
\* are one for each cell that had a patch, no key twice.
CommitDrains ==
    [][/\ CommitStep =>
            \E idx \in keys \ keys' :
                /\ keys' = keys \ {idx}
                /\ idx \notin DOMAIN tree'.patch \/ g'.conc
                /\ tree'.data.item[idx].value = g.pend[idx]
                /\ \A j \in CellIdx \ {idx} :
                      tree'.data.item[j].value = tree.data.item[j].value
                /\ \E key \in {HookKey(k, sl) : k \in Keys, sl \in HookSlots} :
                      /\ g'.touched = g.touched \cup {<<key, idx>>}
                      /\ HasCell(tree, key)
                      /\ RefOf(tree, key).idx = idx
       /\ (CommitEnds /\ ~g'.conc) =>
            /\ DOMAIN tree'.patch = {}
            /\ {y[2] : y \in g'.touched} = g'.keys0
            /\ \A y, z \in g'.touched : y[1] = z[1] => y = z]_vars

\* C8 for the commits that meet no patch of a released cell: the same, for
\* the items whose cells are registered when the iterator yields them.
CommitDrainsLive ==
    [][/\ (CommitStep /\ \A i \in keys : ~FreeListRemoved(tree.data, i)) =>
            \E idx \in keys \ keys' :
                /\ keys' = keys \ {idx}
                /\ idx \notin DOMAIN tree'.patch \/ g'.conc
                /\ tree'.data.item[idx].value = g.pend[idx]
                /\ \A j \in CellIdx \ {idx} :
                      tree'.data.item[j].value = tree.data.item[j].value
                /\ \E key \in {HookKey(k, sl) : k \in Keys, sl \in HookSlots} :
                      /\ g'.touched = g.touched \cup {<<key, idx>>}
                      /\ HasCell(tree, key)
                      /\ RefOf(tree, key).idx = idx
       /\ (CommitEnds /\ ~g'.conc
           /\ \A y \in g'.touched : HasCell(tree', y[1]) /\ RefOf(tree', y[1]).idx = y[2]) =>
            /\ DOMAIN tree'.patch = {}
            /\ {y[2] : y \in g'.touched} = g'.keys0
            /\ \A y, z \in g'.touched : y[1] = z[1] => y = z]_vars

\* the cells registered under the same key before and after a step
SameCells ==
    {i \in LiveCells(tree) \cap LiveCells(tree') :
        \E ref \in LiveRefs(tree) \cap LiveRefs(tree') : ref.idx = i}

\* C9: the commit is atomic with respect to concurrent writes. In every
\* interleaving of writers with update, the patch map holds exactly the
\* writes outstanding, each with the value written last to its cell (a
\* write made while the commit runs is applied by it, superseded, or stays
\* buffered); the committed value of a cell changes only when the commit
\* yields that cell, to the value written last; and the yielded write leaves
\* the buffer with that step, so that no commit applies it again.
CommitAtomic ==
    /\ [](/\ DOMAIN tree.patch = DOMAIN g.pend
          /\ \A i \in DOMAIN tree.patch : tree.patch[i].value = g.pend[i])
    /\ [][/\ CommitStep =>
               \E idx \in keys \ keys' :
                   /\ tree'.data.item[idx].value = g.pend[idx]
                   /\ idx \notin DOMAIN tree'.patch
          /\ \A i \in SameCells :
               tree'.data.item[i].value # tree.data.item[i].value =>
                   CommitStep /\ i \in keys \ keys']_vars

\* a writer shouted while the commit ran, and after the commit a write is
\* buffered on a cell the commit yielded
CommitAtomicWitness ==
    /\ Committed
    /\ g.conc
    /\ \E y \in g.touched : y[2] \in DOMAIN tree.patch

\* C10: a write is observable as a touched key only at the next commit.
\* Once the commit of a cycle is over, no step of the cycle adds to the
\* fragments to re-evaluate or to the touched keys, whatever is written; the
\* generators that run in the cycle are those of the fragments dependents()
\* yielded at the commit and of the fragments that got arguments; a write
\* outstanding when update returns is still buffered; and the commit of an
\* update yields the cell of every patch it found buffered.
TouchedAtNextCommit ==
    /\ [](/\ \A f \in FragIdx : g.runs[f] > 0 => f \in g.taken \/ g.nargs[f] > 0
          /\ pc = "done" => DOMAIN g.pend \subseteq DOMAIN tree.patch
          /\ Committed => {y[2] : y \in g.touched} = g.keys0)
    /\ [][(pc \in {"reeval", "dirty"}) =>
             (/\ to_update' \subseteq to_update
              /\ g'.taken = g.taken
              /\ g'.touched = g.touched)]_vars

\* no thread has written, an update has returned, and the commit of the next
\* update has yielded the cells that generators of the cycle before wrote
TouchedAtNextCommitWitness ==
    /\ pc = "done"
    /\ writes = 0
    /\ g.quiet0
    /\ g.keys0 # {}
    /\ {y[2] : y \in g.touched} = g.keys0

\* C11 as stated: the reads of one update observe a stable snapshot. Of two
\* reads of a cell that generators make during one update, the second
\* returns what the first returned unless the update itself wrote the cell
\* in between, whatever other threads write meanwhile.
SnapshotStable == ~g.torn

\* C13 as stated: remove_widget releases every cell of the key, and an
\* initialize that allocates a cell (as every initialize of a released key
\* does) yields a cell that holds the supplied value, committed and as read,
\* with no dependents.
ReleasedCellsFresh ==
    /\ g.op.name = "remove_widget" =>
           \A sl \in HookSlots : ~HasCell(tree, HookKey(g.op.key, sl))
    /\ (g.op.name = "initialize" /\ ~g.op.found) =>
           /\ get_unpatched(tree, g.op.ref) = g.op.value
           /\ get_patched(tree, g.op.ref) = g.op.value
           /\ dependents(tree, g.op.ref) = {}

\* the step re-evaluates (or skips) the request for arena index idx
Asked(idx) ==
    \/ pc = "reeval" /\ idx \in to_update /\ idx \notin to_update'
    \/ pc = "dirty" /\ idx = Head(todo)

\* C17 as stated, for the to-update set: a request for a fragment that an
\* earlier step of the same update tore down is skipped. The step runs no
\* generator, calls the layouter for nothing, ends in no fatal error, and
\* leaves the state store, the arena and the key registry as they are.
StaleSkipped ==
    [][\A idx \in FragIdx :
          (pc = "reeval" /\ Asked(idx) /\ idx \in g.gone) =>
             (/\ g'.runs = g.runs
              /\ g'.log = <<>>
              /\ pc' # "abort"
              /\ tree' = tree
              /\ store'.data = store.data
              /\ layout' = layout
              /\ key_map' = key_map)]_vars

\* the fragment in arena slot f is live and was evaluated once in the
\* running update, not listening to the listenable of cell ref, whose
\* dependent set nevertheless holds it
Lingers(f, ref) ==
    /\ ~removed(store, f)
    /\ g.runs[f] = 1
    /\ ref.key[1] \notin g.lastReg[f]
    /\ f \in dependents(tree, ref)

\* C12 as stated: dependents() is destructive, hence when an update has
\* returned, a fragment evaluated in it without reading cell c is not in c's
\* dependent set.
Reregisters == pc = "done" => \A f \in FragIdx, ref \in LiveRefs(tree) : ~Lingers(f, ref)

\* C12: dependents() yields exactly the fragments registered on the cell
\* since its set was last taken (or the cell allocated) and leaves the set
\* empty, so the fragments an update re-evaluates for a write to a cell are
\* those registered on it since; and when update has returned, a fragment
\* evaluated once in it without reading a cell whose dependents its commit
\* took is not in that cell's dependent set.
DependentsDestructive ==
    /\ [](/\ pc # "abort" =>
               \A ref \in LiveRefs(tree) : dependents(tree, ref) = g.regs[ref.idx]
          /\ pc = "done" =>
               \A f \in FragIdx, ref \in LiveRefs(tree) :
                  ref.idx \in g.cut => ~Lingers(f, ref))
    /\ [][\A idx \in keys \ keys' :
             (pc = "commit" /\ pc' # "abort" /\ ~FreeListRemoved(tree.data, idx)) =>
                (/\ to_update' = to_update \cup g.regs[idx]
                 /\ tree'.data.item[idx].deps = {})]_vars

\* an update has returned that took fragment f from the dependents of a cell
\* and evaluated it once without its listening to the cell again
DependentsDestructiveWitness ==
    /\ pc = "done"
    /\ \E f \in g.paid, ref \in LiveRefs(tree) :
          /\ ref.idx \in g.cut
          /\ ~removed(store, f)
          /\ g.runs[f] = 1
          /\ ref.key[1] \notin g.lastReg[f]
          /\ dependents(tree, ref) = {}

\* the fragment in arena slot c is live and evaluated in arena fs
IsEvaluated(fs, c) == ~removed(fs, c) /\ get(fs, c).tag = "Evaluated"

\* C14: reconciliation. A step that re-evaluates an evaluated fragment F
\* without a fatal error leaves F evaluated with the children N its generator
\* listed. A child of N that was evaluated before keeps its key, its layout
\* node, its arena slot and its state cells with their values; a child of N
\* that was not is evaluated in the step; every fragment below a child of the
\* old children O that is not in N is removed, with its cells, its layout node
\* and its key; and when O or N is not empty the layouter holds the layout
\* nodes of N, in order, as the children of F's node.
Reconciles ==
    [][\A idx \in FragIdx :
          (Asked(idx) /\ IsEvaluated(store, idx) /\ pc' # "abort") =>
             LET F == get(store, idx)
                 N == get(store', idx).children
             IN /\ IsEvaluated(store', idx)
                /\ get(store', idx).key = F.key
                /\ get(store', idx).layout_idx = F.layout_idx
                /\ \A c \in SeqToSet(N) :
                      IF IsEvaluated(store, c)
                      THEN /\ c \in SeqToSet(F.children)
                           /\ get(store', c) = get(store, c)
                           /\ get(store', c).layout_idx \in layout'.nodes
                           /\ key_map'[get(store, c).key] = c
                           /\ g'.runs[c] = g.runs[c]
                           /\ CellsOf(tree', get(store, c).key)
                                 = CellsOf(tree, get(store, c).key)
                           /\ \A i \in CellsOf(tree, get(store, c).key) :
                                 /\ ~FreeListRemoved(tree'.data, i)
                                 /\ tree'.data.item[i].value = tree.data.item[i].value
                      ELSE /\ IsEvaluated(store', c)
                           /\ g'.runs[c] = g.runs[c] + 1
                           /\ get(store', c).layout_idx \notin layout.nodes
                /\ \A c \in SeqToSet(F.children) \ SeqToSet(N) :
                      \A d \in Reach(store.data.item, {c}) :
                         /\ removed(store', d)
                         /\ d \in g'.gone
                         /\ get(store, d).key \notin DOMAIN tree'.key_to_idx
                         /\ \A i \in CellsOf(tree, get(store, d).key) :
                               FreeListRemoved(tree'.data, i)
                         /\ get(store, d).layout_idx \notin layout'.nodes
                         /\ get(store, d).key \notin DOMAIN key_map'
                /\ (F.children # <<>> \/ N # <<>>) =>
                      layout'.children[F.layout_idx] = LayoutIdxs(store', N)]_vars

\* the step just taken re-evaluated a fragment that kept one child and
\* dropped another together with the fragment below it: the layouter was told
\* one child and to remove two nodes
ReconcilesWitness ==
    /\ pc \in {"reeval", "dirty", "done"}
    /\ \E i \in DOMAIN g.log :
          g.log[i].op = "set_children" /\ Len(g.log[i].hs) = 1
    /\ Cardinality({i \in DOMAIN g.log : g.log[i].op = "remove_node"}) = 2

\* no arena slot is listed twice in the child list
Distinct(children) == Cardinality(SeqToSet(children)) = Len(children)

\* no widget of tree w lists a key twice
DistinctKids(w) == \A k \in Keys : Distinct(Kids(w, k))

\* C15 as stated: a generator that returns a child list with one key twice
\* ends the evaluation in a fatal error, in Evaluator::new and in update, so
\* no evaluated fragment ever holds such a list; and a tree whose widgets
\* list pairwise-distinct keys never ends an evaluation in a fatal error.
DuplicateKeysFatal ==
    /\ [](pc # "abort" =>
             \A f \in FragIdx :
                IsEvaluated(store, f) => Distinct(get(store, f).children))
    /\ [][(pc \in {"reeval", "dirty"} /\ DistinctKids(widgets)) => pc' # "abort"]_vars

\* the sequences of distinct arena slots
Chains ==
    {c \in UNION {[1..n -> FragIdx] : n \in 1..Cardinality(Keys)} :
        \A i, j \in DOMAIN c : c[i] = c[j] => i = j}

\* in the running update the commit asked for the head of chain c alone, the
\* head was re-evaluated, no fragment ran twice or was torn down, and
\* arguments were set once on every fragment of c after the head, a child of
\* the one before it, and on no other fragment
ArgsChain(c) ==
    /\ g.taken = {c[1]}
    /\ g.runs[c[1]] = 1
    /\ g.gone = {}
    /\ \A f \in FragIdx :
          /\ g.runs[f] <= 1
          /\ g.nargs[f] = IF \E i \in 2..Len(c) : c[i] = f THEN 1 ELSE 0
    /\ \A i \in 2..Len(c) :
          IsEvaluated(store, c[i - 1]) /\ c[i] \in SeqToSet(get(store, c[i - 1]).children)

\* C16: fixpoint termination. When update has returned after a chain of N
\* fragments, each re-evaluation setting arguments on exactly the next one,
\* every fragment of the chain ran once and the dirty-args queue was drained N
\* times; the drain before the return was empty; and an update that is
\* re-evaluating goes on to its return or to a fatal error.
FixpointTerminates ==
    /\ [](pc = "done" =>
             /\ ret => (todo = <<>> /\ dirty_args(store) = <<>>)
             /\ \A c \in Chains :
                   ArgsChain(c) =>
                      /\ g.drains = Len(c)
                      /\ \A i \in DOMAIN c : g.runs[c[i]] = 1)
    /\ (pc \in {"commit", "reeval", "dirty"}) ~> (pc \in {"done", "abort"})

\* update has returned after a chain of three fragments and three drains
FixpointTerminatesWitness ==
    /\ pc = "done"
    /\ g.drains = 3
    /\ \E c \in Chains : Len(c) = 3 /\ ArgsChain(c)

\* C18: when update returns, it reports a change exactly when the commit
\* took a fragment from the dependents of a touched cell (the to-update set
\* was not empty) or the drain loop processed a fragment.
ReportsChanged == pc = "done" => (ret <=> (g.taken # {} \/ g.fed))

\* update returns after its drain loop processed a fragment, reporting a
\* change
ReportsChangedWitness == pc = "done" /\ ret /\ g.fed /\ g.drains >= 2

\* C19 as stated: an arena slot holds no fragment, or an evaluated one whose
\* store index is the slot; a step leaves an evaluated fragment evaluated
\* with its key, layout node and store index, or removes it; and no
\* evaluation meets a fragment of the wrong variant: neither Evaluator::new
\* nor a re-evaluation step ends in the fatal error.
SlotStateMachine ==
    /\ pc # "abort"
    /\ [](pc # "abort" =>
             \A i \in FragIdx :
                ~removed(store, i) =>
                   /\ IsEvaluated(store, i)
                   /\ get(store, i).store_idx = i
                   /\ \A c \in SeqToSet(get(store, i).children) : IsEvaluated(store, c))
    /\ [][\A i \in FragIdx :
             (IsEvaluated(store, i) /\ pc' # "abort") =>
                \/ removed(store', i) /\ i \in g'.gone
                \/ /\ IsEvaluated(store', i)
                   /\ get(store', i).key = get(store, i).key
                   /\ get(store', i).layout_idx = get(store, i).layout_idx
                   /\ get(store', i).store_idx = get(store, i).store_idx]_vars
    /\ [][(pc \in {"reeval", "dirty"}) => pc' # "abort"]_vars

\* the positions of the layouter calls of the step just taken
Calls == DOMAIN g.log

\* the call at position i adds a node; its set_children follows at position
\* j, and every child it names was added in between
AddedThenSet(i, j) ==
    /\ i < j
    /\ g.log[j].op = "set_children"
    /\ g.log[j].h = g.log[i].h
    /\ \A c \in SeqToSet(g.log[j].hs) :
          \E k \in Calls : i < k /\ k < j /\ g.log[k] = LayoutCall("add_node", c, <<>>)

\* C20: the layouter protocol. No call to set_children, set_node or
\* remove_node ever named a handle that add_node had not returned or that
\* remove_node had taken back; the nodes the layouter holds are the layout
\* nodes of the evaluated fragments, one each; and in the calls of a step, the
\* add_node of a fragment is followed by the add_node of each of its children
\* and then by its set_children.
LayoutProtocol ==
    /\ ~g.misuse
    /\ pc # "abort" =>
          /\ layout.nodes = {get(store, f).layout_idx : f \in {i \in FragIdx : IsEvaluated(store, i)}}
          /\ \A f1, f2 \in {i \in FragIdx : IsEvaluated(store, i)} :
                get(store, f1).layout_idx = get(store, f2).layout_idx => f1 = f2
          /\ \A i \in Calls :
                g.log[i].op = "add_node" => \E j \in Calls : AddedThenSet(i, j)

\* the step just taken re-evaluated a fragment that listed a new child and
\* dropped an old one: the layouter was asked to add a node, to set children,
\* to set a node and to remove a node
LayoutProtocolWitness ==
    /\ pc # "abort"
    /\ {g.log[i].op : i \in Calls} = {"add_node", "set_children", "set_node", "remove_node"}

\* the arena slots that hold an evaluated fragment
EvaluatedSlots == {i \in FragIdx : IsEvaluated(store, i)}

\* C21: outside a fatal error, and so whenever Evaluator::new or update has
\* returned, the layout node of every evaluated fragment is held by the
\* layouter, two evaluated fragments have different layout nodes, and every
\* node the layouter holds is the layout node of an evaluated fragment.
HandlesRegistered ==
    pc # "abort" =>
       /\ \A f \in EvaluatedSlots : get(store, f).layout_idx \in layout.nodes
       /\ \A f1, f2 \in EvaluatedSlots :
             f1 # f2 => get(store, f1).layout_idx # get(store, f2).layout_idx
       /\ \A h \in layout.nodes :
             Cardinality({f \in EvaluatedSlots : get(store, f).layout_idx = h}) = 1

\* update has returned after tearing a fragment down, with two or more
\* evaluated fragments left
HandlesRegisteredWitness ==
    /\ pc = "done"
    /\ g.gone # {}
    /\ Cardinality(EvaluatedSlots) >= 2

\* C22: the dirty-args queue is empty whenever Evaluator::new or update has
\* returned, with nothing drained left to process; when update has returned,
\* every set_args of the cycle was matched by a drained entry handed to
\* re_eval_fragment; and the step of update that processes a drained entry
\* runs the generator of a live fragment and runs nothing for a removed one.
QueueEmptyOnReturn ==
    /\ [](pc \in {"idle", "done"} => (store.dirty_args = <<>> /\ todo = <<>>))
    /\ [](pc = "done" => \A f \in FragIdx : g.served[f] = g.nargs[f])
    /\ [][(pc = "dirty" /\ writes' = writes /\ pc' # "abort") =>
             /\ g'.served[Head(todo)] = g.served[Head(todo)] + 1
             /\ IF removed(store, Head(todo))
                THEN g'.runs = g.runs
                ELSE g'.runs[Head(todo)] = g.runs[Head(todo)] + 1]_vars

\* update has returned after arguments were set on two fragments, one of
\* them twice
QueueEmptyOnReturnWitness ==
    /\ pc = "done"
    /\ ret
    /\ \E f1, f2 \in FragIdx : f1 # f2 /\ g.nargs[f1] >= 1 /\ g.nargs[f2] >= 2

\* the step just taken is a key_for_hook call that returned
Hooked == calls' = calls + 1 /\ g'.op.name = "key_for_hook"

\* C23: local hook identity. A context created for a fragment starts its
\* local counter at 0; the k-th local key_for_hook call of a context for key
\* K returns (K, k - 1), for every k a u16 slot can hold; initialize on a hook
\* key that has a cell leaves the store as it is (the same cell, its value
\* preserved); a registered hook key keeps its cell through every call; and
\* no two hook keys share a cell.
HookIdentityStable ==
    /\ [][(calls' = calls + 1 /\ g'.op.name = "for_fragment") =>
             context'.widget_local.hook_counter = 0]_vars
    /\ [][(Hooked /\ g'.op.local /\ g'.op.nth <= U16) =>
             g'.op.key = HookKey(context.widget_local.key, g'.op.nth - 1)]_vars
    /\ [][(Hooked /\ g'.op.found) => tree' = tree]_vars
    /\ [][LiveRefs(tree) \subseteq LiveRefs(tree')]_vars
    /\ [](\A r1, r2 \in LiveRefs(tree) :
             /\ ~FreeListRemoved(tree.data, r1.idx)
             /\ r1.idx = r2.idx => r1 = r2)

\* the first local hook of a context resolved to the cell an earlier context
\* for the same key created, which holds another value than the one supplied
HookIdentityStableWitness ==
    /\ pc = "hook"
    /\ g.op.name = "key_for_hook"
    /\ g.op.local
    /\ g.op.found
    /\ g.op.nth = 1
    /\ get_unpatched(tree, RefOf(tree, g.op.key)) # g.op.value

\* C24 as stated: under one key a local slot is never an external slot, an
\* external call never returns a slot an earlier external call returned, and
\* no call that returns leaves its counter wrapped.
HookSlotsNeverCollide ==
    /\ [](\A k \in Keys : g.locals[k] \cap g.externs[k] = {})
    /\ [][(Hooked /\ ~g'.op.local) =>
             g'.op.key[2] \notin g.externs[g'.op.key[1]]]_vars
    /\ [][Hooked =>
             /\ context'.widget_local.hook_counter >= context.widget_local.hook_counter
             /\ \A k \in Keys :
                   context'.external_hook_count[k] >= context.external_hook_count[k]]_vars

\* the cell with arena index idx is registered under the key that the patch
\* buffered for idx was written through
PatchAtOrigin(idx) ==
    /\ HasCell(tree, tree.patch[idx].key)
    /\ RefOf(tree, tree.patch[idx].key).idx = idx

\* C25 as stated, for the arena slots that hold a cell when the commit
\* reaches them (what the access to a freed slot does is the build's
\* choice): a commit applies a patch only to the cell it was written to. A
\* step that drains the patch of a slot which now belongs to another
\* (Key, slot) than the patch's origin leaves the cell in the slot as it is
\* and adds no fragment to the set to re-evaluate.
CommitSparesReleased ==
    [][\A idx \in DOMAIN tree.patch \ DOMAIN tree'.patch :
          \/ PatchAtOrigin(idx)
          \/ FreeListRemoved(tree.data, idx)
          \/ (tree'.data.item[idx] = tree.data.item[idx] /\ to_update' = to_update)]_vars

\* C26 as stated: a re-evaluation request reaches the fragment that caused
\* it or nobody. A step of update that runs the generator of the fragment in
\* arena index idx for an entry of the to-update set does so for a
\* registration that this fragment made on a cell whose dependents the
\* commit took, and one that runs it for a drained dirty-args entry does so
\* for a set_args of this fragment: never for a registration or an entry
\* that a torn-down earlier occupant of the index left behind.
ReachesItsCause ==
    [][\A idx \in FragIdx :
          (writes' = writes /\ Asked(idx) /\ g'.runs[idx] > g.runs[idx]) =>
             IF pc = "reeval" THEN idx \in g.why ELSE g.owed[idx] > 0]_vars
====
